---- MODULE Spec2Model ----
(***************************************************************************)
(* Model of src/llm_logger.py: the LLMLogger facade (log, close, __del__), *)
(* the queue between producers and the single worker thread, and the       *)
(* worker (_process_queue) with its SQLite connection.                     *)
(***************************************************************************)
EXTENDS Integers, Sequences, FiniteSets, TLC

\* ---------------------------------------------------------------- bounds
MaxCalls == 2          \* log calls made in one run
MaxCloses == 2         \* explicit close calls made in one run
MaxTime == 1           \* clock values 0..MaxTime
MaxInputCalls == 1     \* log calls made in one run that draws from every input

\* log and close keep nothing per calling thread, so every call is given a
\* caller of its own: caller p makes the p-th call to start. Two calls of
\* one thread are two callers of which the second starts after the first
\* has returned.
Producers == 1..MaxCalls
Closers == 1..MaxCloses

\* ------------------------------------------------------ payload values
\* Python's None, as returned by dict.get for an absent key or a JSON null.
NoneVal == "<None>"

\* required keys, in the order validate_interaction tests them
required_request_keys == <<"model", "messages">>
required_response_keys == <<"id", "object", "created", "model", "choices", "usage">>

SeqRange(s) == {s[i] : i \in DOMAIN s}

\* A Python value after normalisation. kind is its Python type: "map" (dict),
\* "list", "str", "num", "null". has is what the operator `in` finds in it:
\* the keys of a dict, the elements of a list, the substrings of a str.
\* id and model are what a dict holds under those keys (NoneVal when absent
\* or null). ser is what json.dumps does with it: "ok", "TypeError" (a value
\* that is not JSON serialisable) or "ValueError" (a circular reference).
Value(kind, has, id, model, ser) ==
    [kind |-> kind, has |-> has, id |-> id, model |-> model, ser |-> ser]

NoValue == Value("null", {}, NoneVal, NoneVal, "ok")

\* An argument of log: type is the Python type of the argument ("dict",
\* "str", "other"); for a str, parse says whether json.loads accepts it and
\* val is the value it decodes to; for a dict, val is the dict itself.
DictArg(v) == [type |-> "dict", parse |-> "na", val |-> v]
TextArg(v) == [type |-> "str", parse |-> "ok", val |-> v]
BadText == [type |-> "str", parse |-> "bad", val |-> NoValue]
OtherArg == [type |-> "other", parse |-> "na", val |-> NoValue]

ReqMap(has, ser) == Value("map", has, NoneVal, NoneVal, ser)
RespMap(has, id, model) ==
    Value("map", has,
          IF "id" \in has THEN id ELSE NoneVal,
          IF "model" \in has THEN model ELSE NoneVal, "ok")

AllReq == SeqRange(required_request_keys)
AllResp == SeqRange(required_response_keys)

\* the request arguments the model draws from
Requests ==
    { DictArg(ReqMap(AllReq, "ok")),                       \* a valid dict
      TextArg(ReqMap(AllReq, "ok")),                       \* its JSON text
      DictArg(ReqMap({"model"}, "ok")),                    \* messages missing
      BadText,                                             \* not JSON
      OtherArg,                                            \* e.g. an int
      TextArg(Value("num", {}, NoneVal, NoneVal, "ok")),   \* the text 5
      TextArg(Value("list", AllReq, NoneVal, NoneVal, "ok")), \* ["model","messages"]
      DictArg(ReqMap(AllReq, "TypeError")),                \* holds a set()
      DictArg(ReqMap(AllReq, "ValueError")) }              \* holds itself

\* the response arguments the model draws from
Responses ==
    { DictArg(RespMap(AllResp, "a", "gpt-x")),
      TextArg(RespMap(AllResp, "b", "gpt-x")),
      DictArg(RespMap(AllResp, "", "gpt-x")),              \* id is ""
      DictArg(RespMap(AllResp \ {"model"}, "a", "gpt-x")), \* no model key
      DictArg(RespMap(AllResp, "a", "")),                  \* model is ""
      DictArg(RespMap(AllResp \ {"usage"}, "a", "gpt-x")), \* no usage key
      TextArg(Value("list", AllResp, NoneVal, NoneVal, "ok")), \* a JSON list
      TextArg(Value("null", {}, NoneVal, NoneVal, "ok")) } \* the text null

\* the interactions the concurrent runs draw from: three valid ones (ids
\* "a", "b" and "", as dicts and as JSON text), one whose response lacks
\* model
Interactions ==
    { <<DictArg(ReqMap(AllReq, "ok")), DictArg(RespMap(AllResp, "a", "gpt-x"))>>,
      <<TextArg(ReqMap(AllReq, "ok")), TextArg(RespMap(AllResp, "b", "gpt-x"))>>,
      <<DictArg(ReqMap(AllReq, "ok")), DictArg(RespMap(AllResp, "", "gpt-x"))>>,
      <<DictArg(ReqMap(AllReq, "ok")),
        DictArg(RespMap(AllResp \ {"model"}, "a", "gpt-x"))>> }

\* ------------------------------------------------------------ normaliser
\* _ensure_dict: exc is the exception raised ("none" when it returns), val
\* the value returned. A str is returned as json.loads decodes it, whatever
\* the decoded value is.
_ensure_dict(data) ==
    IF data.type = "str"
    THEN IF data.parse = "bad"
         THEN [exc |-> "ValueError", val |-> NoValue]
         ELSE [exc |-> "none", val |-> data.val]
    ELSE IF data.type = "dict"
         THEN [exc |-> "none", val |-> data.val]
         ELSE [exc |-> "TypeError", val |-> NoValue]

\* ------------------------------------------------------------- validator
Msg(text, detail) == [text |-> text, detail |-> detail]

\* `key in v` raises TypeError when v is not a container (int, None, bool).
InRaises(v) == v.kind \in {"num", "null"}

\* index of the first key of keys that is not in v, 0 when all are there
RECURSIVE FirstMissing(_, _, _)
FirstMissing(keys, v, i) ==
    IF i > Len(keys) THEN 0
    ELSE IF keys[i] \notin v.has THEN i
    ELSE FirstMissing(keys, v, i + 1)

\* validate_interaction: ret is the value returned, exc the exception that
\* escapes it ("none" when it returns), msgs what it writes with
\* logging.error.
validate_interaction(request, response) ==
    IF InRaises(request)
    THEN [ret |-> FALSE, exc |-> "TypeError", msgs |-> <<>>]
    ELSE LET i == FirstMissing(required_request_keys, request, 1) IN
         IF i # 0
         THEN [ret |-> FALSE, exc |-> "none",
               msgs |-> <<Msg("Missing key in request", required_request_keys[i])>>]
         ELSE IF InRaises(response)
         THEN [ret |-> FALSE, exc |-> "TypeError", msgs |-> <<>>]
         ELSE LET j == FirstMissing(required_response_keys, response, 1) IN
              IF j # 0
              THEN [ret |-> FALSE, exc |-> "none",
                    msgs |-> <<Msg("Missing key in response", required_response_keys[j])>>]
              ELSE [ret |-> TRUE, exc |-> "none", msgs |-> <<>>]

\* --------------------------------------------------------- record builder
\* a test `is None` in place of truthiness: "" counts as a value
FalsyNone(v) == v = NoneVal

\* Python truthiness of the values the model uses
Falsy(v) == v \in {"", NoneVal}

\* str(uuid.uuid4()) for the n-th identifier generated
uuid4(n) == "uuid" \o ToString(n)

\* json.dumps of a serialisable value: the text encoding it
dumps(v) == [json |-> v]
\* json.loads of such a text
loads(t) == t.json

NoEntry ==
    [interaction_id |-> NoneVal, timestamp |-> -1, model |-> NoneVal,
     request_data |-> dumps(NoValue), response_data |-> dumps(NoValue),
     token_usage |-> NoneVal]

Return(msgs, uuids) ==
    [outcome |-> "return", exc |-> "none", msgs |-> msgs, entry |-> NoEntry,
     uuids |-> uuids]
Raise(exc, msgs, uuids) ==
    [outcome |-> "raise", exc |-> exc, msgs |-> msgs, entry |-> NoEntry,
     uuids |-> uuids]

\* The body of log up to the put, for the arguments request and response,
\* the clock value t and u identifiers generated so far: outcome is "put"
\* (entry is ready for the queue), "return" (log returns early) or "raise"
\* (exception exc escapes log); msgs is what it writes with logging.error;
\* uuids is the number of identifiers it generated.
LogBuild(request, response, t, u) ==
    LET rq == _ensure_dict(request)
        rs == _ensure_dict(response)
    IN
    IF rq.exc # "none"
    THEN Return(<<Msg("Error processing input data", rq.exc)>>, 0)
    ELSE IF rs.exc # "none"
    THEN Return(<<Msg("Error processing input data", rs.exc)>>, 0)
    ELSE
    LET v == validate_interaction(rq.val, rs.val) IN
    IF v.exc # "none" THEN Raise(v.exc, v.msgs, 0)
    ELSE IF ~v.ret
    THEN Return(v.msgs \o <<Msg("Invalid interaction data. Skipping logging.", "")>>, 0)
    ELSE IF rs.val.kind # "map" THEN Raise("AttributeError", <<>>, 0)
    ELSE
    LET gen == IF Falsy(rs.val.id) THEN 1 ELSE 0
        interaction_id == IF gen = 1 THEN uuid4(u + 1) ELSE rs.val.id
        model == rs.val.model
    IN
    IF Falsy(model)
    THEN Return(<<Msg("Model name not found in response. Skipping logging.", "")>>, gen)
    ELSE IF rq.val.ser = "TypeError" \/ (rq.val.ser = "ok" /\ rs.val.ser = "TypeError")
    THEN Return(<<Msg("Error serializing data to JSON", "TypeError")>>, gen)
    ELSE IF rq.val.ser = "ValueError" \/ rs.val.ser = "ValueError"
    THEN Raise("ValueError", <<>>, gen)
    ELSE [outcome |-> "put", exc |-> "none", msgs |-> <<>>,
          entry |-> [interaction_id |-> interaction_id,
                     timestamp |-> t,
                     model |-> model,
                     request_data |-> dumps(rq.val),
                     response_data |-> dumps(rs.val),
                     token_usage |-> IF "usage" \in rs.val.has THEN "usage" ELSE "{}"],
          uuids |-> gen]

\* ------------------------------------------------------------- storage
\* the columns of CREATE TABLE IF NOT EXISTS interactions
TableColumns ==
    {"interaction_id", "timestamp", "model", "request_data", "response_data"}

\* the columns the INSERT statement names
InsertColumns ==
    <<"interaction_id", "timestamp", "model", "request_data", "response_data",
      "prompt_tokens">>

\* the number of ? in the VALUES list of the INSERT statement
InsertPlaceholders == 6

\* the tuple cursor.execute is given for a log entry
InsertParams(log_entry) ==
    <<log_entry.interaction_id, log_entry.timestamp, log_entry.model,
      log_entry.request_data, log_entry.response_data>>

Row(params) ==
    [interaction_id |-> params[1], timestamp |-> params[2], model |-> params[3],
     request_data |-> params[4], response_data |-> params[5]]

\* cursor.execute(insert_interaction_query, params) on a table holding
\* table: SQLite prepares the statement (every named column must exist),
\* binds the parameters (as many as there are placeholders), then inserts
\* (the primary key must be new). err is the exception raised, "none" when
\* the row is inserted.
execute(table, params) ==
    IF \E i \in DOMAIN InsertColumns : InsertColumns[i] \notin TableColumns
    THEN [err |-> "OperationalError", table |-> table]
    ELSE IF Len(params) # InsertPlaceholders
    THEN [err |-> "ProgrammingError", table |-> table]
    ELSE IF \E r \in table : r.interaction_id = params[1]
    THEN [err |-> "IntegrityError", table |-> table]
    ELSE [err |-> "none", table |-> table \cup {Row(params)}]

\* what the except clauses of the insert write for exception err
InsertDiagnostic(err) ==
    IF err = "none" THEN <<>>
    ELSE IF err = "IntegrityError"
    THEN <<Msg("Integrity error logging interaction", err)>>
    ELSE IF err \in {"OperationalError", "ProgrammingError"}
    THEN <<Msg("Database error logging interaction", err)>>
    ELSE <<Msg("Unexpected error logging interaction", err)>>

\* ----------------------------------------------------------------- state
VARIABLES
    log_queue,      \* self.log_queue: the entries put and not yet taken
    stop_event,     \* self.stop_event
    wpc,            \* where the worker thread is in _process_queue
    log_entry,      \* the worker's local log_entry
    conn,           \* the worker's connection: "none", "open", "closed"
    connCloses,     \* how many times conn.close() ran
    tables_created, \* _create_tables returned normally
    rows,           \* the rows of table interactions
    sink,           \* what logging.error has written, in order
    now,            \* the clock datetime.utcnow() reads
    uuidCount,      \* identifiers uuid.uuid4() has generated
    pc,             \* per producer: "idle", "put" (entry built, before put), "done"
    pending,        \* per producer: the entry built, while pc is "put"
    calls,          \* history: the log calls made, with their outcome
    putLog,         \* history: the entries put, in the order of the puts
    attempts,       \* history: the insert attempts, in order, with result
    cpc,            \* per closer: "idle", "join" (flag set, in join), "done"
    nCloses,        \* explicit close calls made
    closeReturned,  \* close calls (explicit or from __del__) that returned
    dpc,            \* the object: "alive", "join" (__del__ in close), "dead"
    overlap         \* history: some log call had not returned when close was called

vars ==
    <<log_queue, stop_event, wpc, log_entry, conn, connCloses, tables_created,
      rows, sink, now, uuidCount, pc, pending, calls, putLog, attempts, cpc,
      nCloses, closeReturned, dpc, overlap>>

workerVars == <<wpc, log_entry, conn, connCloses, tables_created, rows, attempts>>
producerVars == <<pc, pending, calls, putLog, uuidCount>>
closerVars == <<cpc, nCloses, closeReturned, dpc>>

\* __init__: an empty queue, the event clear, the worker thread started
Init ==
    /\ log_queue = <<>>
    /\ stop_event = FALSE
    /\ wpc = "connect"
    /\ log_entry = NoEntry
    /\ conn = "none"
    /\ connCloses = 0
    /\ tables_created = FALSE
    /\ rows = {}
    /\ sink = <<>>
    /\ now = 0
    /\ uuidCount = 0
    /\ pc = [p \in Producers |-> "idle"]
    /\ pending = [p \in Producers |-> NoEntry]
    /\ calls = <<>>
    /\ putLog = <<>>
    /\ attempts = <<>>
    /\ cpc = [c \in Closers |-> "idle"]
    /\ nCloses = 0
    /\ closeReturned = 0
    /\ dpc = "alive"
    /\ overlap = FALSE

\* the clock advances
Tick ==
    /\ now < MaxTime
    /\ now' = now + 1
    /\ UNCHANGED <<log_queue, stop_event, sink, overlap>>
    /\ UNCHANGED <<workerVars, producerVars, closerVars>>

\* --------------------------------------------------------------- worker
\* sqlite3.connect: opens the connection, or raises sqlite3.Error
Connect ==
    /\ wpc = "connect"
    /\ \/ /\ conn' = "open"
          /\ wpc' = "create"
          /\ sink' = sink
       \/ /\ conn' = conn
          /\ wpc' = "done"
          /\ sink' = Append(sink, Msg("Database connection failed", "Error"))
    /\ UNCHANGED <<log_queue, stop_event, log_entry, connCloses, tables_created,
                   rows, now, attempts, overlap>>
    /\ UNCHANGED <<producerVars, closerVars>>

\* _create_tables without its `raise`: the failure is logged and the worker
\* goes on to the loop
CreateTablesSwallow ==
    /\ wpc = "create"
    /\ \/ /\ tables_created' = TRUE
          /\ sink' = sink
       \/ /\ tables_created' = tables_created
          /\ sink' = Append(sink, Msg("Failed to create tables", "Error"))
    /\ wpc' = "loop"
    /\ UNCHANGED <<log_queue, stop_event, log_entry, conn, connCloses, rows, now,
                   attempts, overlap>>
    /\ UNCHANGED <<producerVars, closerVars>>

\* self._create_tables(conn): creates the table, or logs, re-raises and the
\* worker logs again and returns
CreateTables ==
    /\ wpc = "create"
    /\ \/ /\ tables_created' = TRUE
          /\ wpc' = "loop"
          /\ sink' = sink
       \/ /\ tables_created' = tables_created
          /\ wpc' = "done"
          /\ sink' = sink \o <<Msg("Failed to create tables", "Error"),
                               Msg("Database connection failed", "Error")>>
    /\ UNCHANGED <<log_queue, stop_event, log_entry, conn, connCloses, rows, now,
                   attempts, overlap>>
    /\ UNCHANGED <<producerVars, closerVars>>

\* the emptiness test inverted: ... or self.log_queue.empty()
LoopWhileEmpty == ~stop_event \/ log_queue = <<>>

\* the queue test left out: while not self.stop_event.is_set()
LoopUntilStop == ~stop_event

\* the loop condition: not self.stop_event.is_set() or not self.log_queue.empty()
LoopCondition == ~stop_event \/ log_queue # <<>>

LoopCheck ==
    /\ wpc = "loop"
    /\ wpc' = IF LoopCondition THEN "get" ELSE "close"
    /\ UNCHANGED <<log_queue, stop_event, log_entry, conn, connCloses,
                   tables_created, rows, sink, now, attempts, overlap>>
    /\ UNCHANGED <<producerVars, closerVars>>

\* a worker that stamps the entry with the time it takes it from the queue
GetRestamps ==
    /\ wpc = "get"
    /\ log_queue # <<>>
    /\ log_entry' = [Head(log_queue) EXCEPT !.timestamp = now]
    /\ log_queue' = Tail(log_queue)
    /\ wpc' = "insert"
    /\ UNCHANGED <<stop_event, conn, connCloses, tables_created, rows, sink, now,
                   attempts, overlap>>
    /\ UNCHANGED <<producerVars, closerVars>>

\* a queue.LifoQueue: get returns the newest entry
GetNewest ==
    /\ wpc = "get"
    /\ log_queue # <<>>
    /\ log_entry' = log_queue[Len(log_queue)]
    /\ log_queue' = SubSeq(log_queue, 1, Len(log_queue) - 1)
    /\ wpc' = "insert"
    /\ UNCHANGED <<stop_event, conn, connCloses, tables_created, rows, sink, now,
                   attempts, overlap>>
    /\ UNCHANGED <<producerVars, closerVars>>

\* self.log_queue.get(timeout=1) returns the oldest entry
Get ==
    /\ wpc = "get"
    /\ log_queue # <<>>
    /\ log_entry' = Head(log_queue)
    /\ log_queue' = Tail(log_queue)
    /\ wpc' = "insert"
    /\ UNCHANGED <<stop_event, conn, connCloses, tables_created, rows, sink, now,
                   attempts, overlap>>
    /\ UNCHANGED <<producerVars, closerVars>>

\* self.log_queue.get(timeout=1) raises queue.Empty; continue
GetTimeout ==
    /\ wpc = "get"
    /\ log_queue = <<>>
    /\ wpc' = "loop"
    /\ UNCHANGED <<log_queue, stop_event, log_entry, conn, connCloses,
                   tables_created, rows, sink, now, attempts, overlap>>
    /\ UNCHANGED <<producerVars, closerVars>>

\* an insert that puts the entry back on the queue when it fails
InsertRequeue ==
    /\ wpc = "insert"
    /\ LET r == execute(rows, InsertParams(log_entry)) IN
       /\ rows' = r.table
       /\ sink' = sink \o InsertDiagnostic(r.err)
       /\ attempts' = Append(attempts, [entry |-> log_entry, err |-> r.err])
       /\ log_queue' = IF r.err = "none" THEN log_queue
                       ELSE Append(log_queue, log_entry)
    /\ wpc' = "loop"
    /\ UNCHANGED <<stop_event, log_entry, conn, connCloses,
                   tables_created, now, overlap>>
    /\ UNCHANGED <<producerVars, closerVars>>

\* the insert of log_entry: execute, commit, the except clauses, task_done
Insert ==
    /\ wpc = "insert"
    /\ LET r == execute(rows, InsertParams(log_entry)) IN
       /\ rows' = r.table
       /\ sink' = sink \o InsertDiagnostic(r.err)
       /\ attempts' = Append(attempts, [entry |-> log_entry, err |-> r.err])
    /\ wpc' = "loop"
    /\ UNCHANGED <<log_queue, stop_event, log_entry, conn, connCloses,
                   tables_created, now, overlap>>
    /\ UNCHANGED <<producerVars, closerVars>>

\* conn.close() after the loop
ConnClose ==
    /\ wpc = "close"
    /\ conn' = "closed"
    /\ connCloses' = connCloses + 1
    /\ wpc' = "done"
    /\ UNCHANGED <<log_queue, stop_event, log_entry, tables_created, rows, sink,
                   now, attempts, overlap>>
    /\ UNCHANGED <<producerVars, closerVars>>

Worker == Connect \/ CreateTables \/ LoopCheck \/ Get \/ GetTimeout \/ Insert \/ ConnClose

\* ------------------------------------------------------------ producers
\* a queue built with maxsize=1: put waits while an entry is on it
QueueBounded(q) == Len(q) < 1

\* queue.Queue() has maxsize 0: put never waits for room
QueueAccepts(q) == TRUE

\* What the interface asks of an interaction: the request is, or is the
\* text of, a mapping with the required request keys, the response likewise
\* with the required response keys and a non-empty model.
IsMapping(arg) ==
    /\ arg.type = "dict" \/ (arg.type = "str" /\ arg.parse = "ok")
    /\ arg.val.kind = "map"

ValidInteraction(request, response) ==
    /\ IsMapping(request) /\ AllReq \subseteq request.val.has
    /\ IsMapping(response) /\ AllResp \subseteq response.val.has
    /\ ~Falsy(response.val.model)

Serialisable(request, response) == request.val.ser = "ok" /\ response.val.ser = "ok"

\* what log's second call of _ensure_dict returns; it is not made when the
\* first one raised
NormalisedResponse(request, response) ==
    IF _ensure_dict(request).exc = "none"
    THEN _ensure_dict(response)
    ELSE [exc |-> "not called", val |-> NoValue]

\* what log's call of validate_interaction does; it is not made when
\* _ensure_dict raised
Validated(request, response) ==
    IF _ensure_dict(request).exc = "none" /\ _ensure_dict(response).exc = "none"
    THEN validate_interaction(_ensure_dict(request).val, _ensure_dict(response).val)
    ELSE [ret |-> FALSE, exc |-> "not called", msgs |-> <<>>]

\* log(request, response) by producer p, up to the put: the code from the
\* normaliser to the prepared log_entry runs on p's own data; the clock is
\* read here. The history keeps of each call whether its arguments were a
\* valid, serialisable interaction, what _ensure_dict returned for each
\* argument (nrq, nrs), what validate_interaction did when it ran (v), the
\* clock value read for an entry that was built (t), and how the call ended.
LogCall(p, request, response) ==
    /\ pc[p] = "idle"
    /\ dpc = "alive"
    /\ p = Len(calls) + 1
    /\ LET r == LogBuild(request, response, now, uuidCount) IN
       /\ sink' = sink \o r.msgs
       /\ uuidCount' = uuidCount + r.uuids
       /\ calls' = Append(calls, [valid |-> ValidInteraction(request, response),
                                  ser |-> Serialisable(request, response),
                                  nrq |-> _ensure_dict(request),
                                  nrs |-> NormalisedResponse(request, response),
                                  v |-> Validated(request, response),
                                  t |-> IF r.outcome = "put" THEN now ELSE -1,
                                  outcome |-> r.outcome, exc |-> r.exc])
       /\ pc' = [pc EXCEPT ![p] = IF r.outcome = "put" THEN "put" ELSE "done"]
       /\ pending' = [pending EXCEPT ![p] = r.entry]
    /\ overlap' = (overlap \/ stop_event)
    /\ UNCHANGED <<log_queue, stop_event, now, putLog>>
    /\ UNCHANGED <<workerVars, closerVars>>

\* self.log_queue.put(log_entry), and log returns
PutEntry(p) ==
    /\ pc[p] = "put"
    /\ QueueAccepts(log_queue)
    /\ log_queue' = Append(log_queue, pending[p])
    /\ putLog' = Append(putLog, [entry |-> pending[p], call |-> p])
    /\ calls' = [calls EXCEPT ![p].outcome = "return"]
    /\ pc' = [pc EXCEPT ![p] = "done"]
    /\ pending' = [pending EXCEPT ![p] = NoEntry]
    /\ UNCHANGED <<stop_event, sink, now, uuidCount, overlap>>
    /\ UNCHANGED <<workerVars, closerVars>>

\* ---------------------------------------------------------------- close
\* a close that does not wait for the worker: join left out
JoinNoWait == TRUE

\* a join that can complete only once: a later join of the ended thread hangs
JoinOnce == wpc = "done" /\ closeReturned = 0

\* self.logging_thread.join() returns once the worker thread has ended
JoinReturns == wpc = "done"

\* close(): self.stop_event.set(), then the caller is in join
CloseCall(c) ==
    /\ cpc[c] = "idle"
    /\ dpc = "alive"
    /\ c = nCloses + 1
    /\ stop_event' = TRUE
    /\ cpc' = [cpc EXCEPT ![c] = "join"]
    /\ nCloses' = nCloses + 1
    /\ overlap' = (overlap \/ \E p \in Producers : pc[p] = "put")
    /\ UNCHANGED <<log_queue, sink, now, closeReturned, dpc>>
    /\ UNCHANGED <<workerVars, producerVars>>

\* a close() that closes the connection itself once the join has returned
CloseJoinClosesConn(c) ==
    /\ cpc[c] = "join"
    /\ JoinReturns
    /\ cpc' = [cpc EXCEPT ![c] = "done"]
    /\ closeReturned' = closeReturned + 1
    /\ conn' = "closed"
    /\ connCloses' = connCloses + 1
    /\ UNCHANGED <<log_queue, stop_event, sink, now, nCloses, dpc, overlap>>
    /\ UNCHANGED <<wpc, log_entry, tables_created, rows, attempts>>
    /\ UNCHANGED producerVars

\* the join returns, and close with it
CloseJoin(c) ==
    /\ cpc[c] = "join"
    /\ JoinReturns
    /\ cpc' = [cpc EXCEPT ![c] = "done"]
    /\ closeReturned' = closeReturned + 1
    /\ UNCHANGED <<log_queue, stop_event, sink, now, nCloses, dpc, overlap>>
    /\ UNCHANGED <<workerVars, producerVars>>

\* __del__: runs when nothing refers to the logger any more: no call is in
\* progress, and the worker thread, whose target is a bound method of the
\* logger, has ended. It calls close() inside try/except.
DelCall ==
    /\ dpc = "alive"
    /\ wpc = "done"
    /\ \A p \in Producers : pc[p] # "put"
    /\ \A c \in Closers : cpc[c] # "join"
    /\ stop_event' = TRUE
    /\ dpc' = "join"
    /\ UNCHANGED <<log_queue, sink, now, cpc, nCloses, closeReturned, overlap>>
    /\ UNCHANGED <<workerVars, producerVars>>

DelJoin ==
    /\ dpc = "join"
    /\ JoinReturns
    /\ dpc' = "dead"
    /\ closeReturned' = closeReturned + 1
    /\ UNCHANGED <<log_queue, stop_event, sink, now, cpc, nCloses, overlap>>
    /\ UNCHANGED <<workerVars, producerVars>>

\* ----------------------------------------------------------------- spec
Producer == \E p \in Producers :
    \/ \E i \in Interactions : LogCall(p, i[1], i[2])
    \/ PutEntry(p)

Closer == (\E c \in Closers : CloseCall(c) \/ CloseJoin(c)) \/ DelCall \/ DelJoin

Next == Tick \/ Worker \/ Producer \/ Closer

Spec == Init /\ [][Next]_vars

\* The scheduler runs every thread that can take a step: the worker, and a
\* caller that is inside close.
Fairness ==
    /\ WF_vars(Worker)
    /\ \A c \in Closers : WF_vars(CloseJoin(c))
    /\ WF_vars(DelJoin)

\* The clock is read only into the timestamp of an entry, which no guard
\* reads: the runs that decide termination keep it stopped.
FairNext == Worker \/ Producer \/ Closer

FairSpec == Init /\ [][FairNext]_vars /\ Fairness

\* Runs that draw the arguments of log from every kind of input.
AnyProducer == \E p \in 1..MaxInputCalls :
    \/ \E request \in Requests, response \in Responses : LogCall(p, request, response)
    \/ PutEntry(p)

InputNext == Tick \/ Worker \/ AnyProducer \/ Closer

InputSpec == Init /\ [][InputNext]_vars

\* --------------------------------------------------------------- claims
\* the normalised response an entry was built from
ResponseOf(entry) == loads(entry.response_data)

\* every log call made so far was a valid, serialisable interaction and has
\* returned, and all of them had returned when close was first called
AllLoggedBeforeClose ==
    /\ ~overlap
    /\ \A i \in DOMAIN calls :
          calls[i].valid /\ calls[i].ser /\ calls[i].outcome = "return"

\* C1: after one log call with a valid interaction, followed by close(), on
\* a logger whose tables were created, the table holds exactly one row and
\* its model is the model of the response.
C1_OneRowAfterLogAndClose ==
    (/\ tables_created
     /\ Len(calls) = 1
     /\ AllLoggedBeforeClose
     /\ closeReturned >= 1)
    => /\ Cardinality(rows) = 1
       /\ \A r \in rows : r.model = ResponseOf(putLog[1].entry).model

\* C2: no log call ends with an exception escaping to its caller, whatever
\* its arguments and whatever the state of the logger.
C2_LogNeverRaises == \A i \in DOMAIN calls : calls[i].outcome # "raise"

\* C3: when MaxCalls threads have each logged one valid interaction, with
\* pairwise distinct response ids, and close() was called after all of them
\* returned, the table holds one row per interaction.
C3_OneRowPerInteraction ==
    (/\ tables_created
     /\ Len(calls) = MaxCalls
     /\ AllLoggedBeforeClose
     /\ \A i \in DOMAIN putLog :
           putLog[i].entry.interaction_id = ResponseOf(putLog[i].entry).id
     /\ \A i, j \in DOMAIN putLog :
           i # j => putLog[i].entry.interaction_id # putLog[j].entry.interaction_id
     /\ closeReturned >= 1)
    => /\ Cardinality(rows) = MaxCalls
       /\ \A i \in DOMAIN putLog :
             \E r \in rows : r.interaction_id = putLog[i].entry.interaction_id

\* C4: on a logger whose tables were created, the queue is empty whenever a
\* close() has returned: no entry that was put stays on the queue.
C4_QueueEmptyOnceClosed ==
    (tables_created /\ closeReturned >= 1) => log_queue = <<>>

\* C5: in every state where a close() call (explicit or from __del__) has
\* returned, the worker thread has terminated.
C5_CloseReturnsAfterWorkerEnded ==
    ((\E c \in Closers : cpc[c] = "done") \/ dpc = "dead" \/ closeReturned >= 1)
    => wpc = "done"

\* a close has returned after the worker created its tables and attempted
\* an insert
C5_Witness ==
    /\ \E c \in Closers : cpc[c] = "done"
    /\ tables_created
    /\ attempts # <<>>

\* C6: under fair scheduling every close() call, explicit or from __del__,
\* that has set the flag and is in join eventually returns.
C6_CloseEventuallyReturns ==
    /\ \A c \in Closers : (cpc[c] = "join") ~> (cpc[c] = "done")
    /\ (dpc = "join") ~> (dpc = "dead")

\* a close has returned in a run where the tables were created and a log
\* call was rejected (its response lacked model)
C6_Witness ==
    /\ \E c \in Closers : cpc[c] = "done"
    /\ tables_created
    /\ \E i \in DOMAIN calls : ~calls[i].valid /\ calls[i].outcome = "return"

\* C7: once a close() has returned, a later close() call (explicit or from
\* __del__) that is in join can return at once, and every step taken from
\* then on leaves the stop flag set, the worker terminated and the rows
\* unchanged.
C7_RepeatedCloseIsSafe ==
    /\ [](closeReturned >= 1 =>
            /\ \A c \in Closers : cpc[c] = "join" => ENABLED CloseJoin(c)
            /\ dpc = "join" => ENABLED DelJoin)
    /\ [][closeReturned >= 1 =>
            (stop_event' /\ wpc' = "done" /\ rows' = rows /\ attempts' = attempts)]_vars

\* two explicit close calls and the one of __del__ have all returned
C7_Witness ==
    /\ \A c \in Closers : cpc[c] = "done"
    /\ dpc = "dead"
    /\ closeReturned >= 3
    /\ attempts # <<>>

\* C8: when two valid interactions with the same response id were logged
\* and the logger was then closed, one insert succeeded, the other failed
\* with an integrity error written to the sink, and one row holds that id.
SameIdLogged ==
    /\ Len(putLog) = 2
    /\ putLog[1].entry.interaction_id = putLog[2].entry.interaction_id
    /\ putLog[1].entry.interaction_id = ResponseOf(putLog[1].entry).id

C8_DuplicateIdOneRowOneFailure ==
    (/\ tables_created
     /\ Len(calls) = 2
     /\ AllLoggedBeforeClose
     /\ SameIdLogged
     /\ closeReturned >= 1)
    => /\ Len(attempts) = 2
       /\ attempts[1].err = "none"
       /\ attempts[2].err = "IntegrityError"
       /\ Msg("Integrity error logging interaction", "IntegrityError") \in SeqRange(sink)
       /\ Cardinality({r \in rows :
                          r.interaction_id = putLog[1].entry.interaction_id}) = 1

\* C9: every entry that was put on the queue comes from a log call whose
\* arguments were a valid interaction: mappings with the required keys and
\* a non-empty model.
C9_OnlyValidInteractionsQueued ==
    \A i \in DOMAIN putLog : calls[putLog[i].call].valid

\* C10: a producer that has built its entry can always put it: the put is
\* enabled whatever the worker is doing and however long the queue is.
C10_PutNeverWaits ==
    \A p \in Producers : pc[p] = "put" => ENABLED PutEntry(p)

\* a producer is about to put while an entry waits on the queue and the
\* worker has terminated
C10_Witness ==
    \E p \in Producers : pc[p] = "put" /\ log_queue # <<>> /\ wpc = "done"

\* the identifiers of the entries put before the i-th
EarlierIds(i) == {putLog[j].entry.interaction_id : j \in 1..(i - 1)}

\* C11: the interaction_id of every entry put is the response's id when that
\* id is non-empty, and otherwise a generated identifier that differs from
\* the identifier of every entry put before and of every stored row; the
\* entry the worker attempts to insert is the entry that was put.
C11_InteractionIdFromResponseOrFresh ==
    /\ \A i \in DOMAIN putLog :
          LET e == putLog[i].entry
              rid == ResponseOf(e).id
          IN IF rid \notin {"", NoneVal}
             THEN e.interaction_id = rid
             ELSE /\ e.interaction_id \in {uuid4(n) : n \in 1..uuidCount}
                  /\ e.interaction_id \notin EarlierIds(i)
                  /\ (\E r \in rows : r.interaction_id = e.interaction_id)
                        => i <= Len(attempts)
    /\ \A i \in DOMAIN attempts :
          attempts[i].entry.interaction_id = putLog[i].entry.interaction_id

\* the worker has attempted an entry with a generated identifier and one
\* with the identifier of its response
C11_Witness ==
    /\ Len(attempts) = 2
    /\ \E i, j \in DOMAIN attempts :
          /\ ResponseOf(attempts[i].entry).id = ""
          /\ attempts[i].entry.interaction_id = uuid4(1)
          /\ ResponseOf(attempts[j].entry).id = "a"
          /\ attempts[j].entry.interaction_id = "a"

\* C12: the insert attempts are made in the order of the puts: the i-th
\* attempt is for the i-th entry put.
C12_AttemptsInPutOrder ==
    /\ Len(attempts) <= Len(putLog)
    /\ \A i \in DOMAIN attempts : attempts[i].entry = putLog[i].entry

\* two different entries have been attempted
C12_Witness ==
    /\ Len(attempts) = 2
    /\ attempts[1].entry # attempts[2].entry

\* C13: every entry put is in exactly one place: on the queue, in the
\* worker's hands before its insert, or attempted once; so the attempts
\* never outnumber the puts and no entry comes back to the queue.
C13_OneAttemptPerEntry ==
    /\ Len(attempts) <= Len(putLog)
    /\ Len(attempts) + Len(log_queue) + (IF wpc = "insert" THEN 1 ELSE 0)
          = Len(putLog)

\* two inserts have failed, the queue is empty and the worker has ended
C13_Witness ==
    /\ Len(attempts) = 2
    /\ \A i \in DOMAIN attempts : attempts[i].err # "none"
    /\ log_queue = <<>>
    /\ wpc = "done"

\* C14: once the tables are created the worker leaves its loop only from
\* the loop test, with the stop flag set by a close() call and the queue
\* empty at that test: not before close(), not after a failed insert, not
\* after an idle get.
C14_LoopExitOnlyWhenStoppedAndDrained ==
    [][(tables_created /\ wpc \notin {"close", "done"} /\ wpc' \in {"close", "done"})
         => (wpc = "loop" /\ stop_event /\ nCloses >= 1 /\ log_queue = <<>>)]_vars

\* the worker has left its loop after a failed insert and the drain
C14_Witness ==
    /\ tables_created
    /\ wpc = "close"
    /\ attempts # <<>>
    /\ attempts[1].err # "none"

\* C15: when the connection or the table creation failed, the worker has
\* logged it and ended without taking an entry or attempting an insert;
\* every entry put stays on the queue, a producer can still put, and a
\* close() in join can return.
C15_InitFailureEndsWorker ==
    (wpc = "done" /\ ~tables_created)
    => /\ attempts = <<>>
       /\ rows = {}
       /\ log_entry = NoEntry
       /\ log_queue = [i \in DOMAIN putLog |-> putLog[i].entry]
       /\ Msg("Database connection failed", "Error") \in SeqRange(sink)
       /\ \A p \in Producers : pc[p] = "put" => ENABLED PutEntry(p)
       /\ \A c \in Closers : cpc[c] = "join" => ENABLED CloseJoin(c)

\* after a failed table creation an entry was put and a close() returned
C15_Witness ==
    /\ wpc = "done"
    /\ ~tables_created
    /\ conn = "open"
    /\ log_queue # <<>>
    /\ \E c \in Closers : cpc[c] = "done"

\* C16: every value _ensure_dict has returned to log is a mapping.
C16_NormaliserReturnsMappings ==
    \A i \in DOMAIN calls :
        /\ calls[i].nrq.exc = "none" => calls[i].nrq.val.kind = "map"
        /\ calls[i].nrs.exc = "none" => calls[i].nrs.val.kind = "map"

\* the required keys in the order of the claim: those of the request, then
\* those of the response
KeyOrder ==
    [i \in 1..(Len(required_request_keys) + Len(required_response_keys)) |->
        IF i <= Len(required_request_keys)
        THEN [side |-> "request", key |-> required_request_keys[i]]
        ELSE [side |-> "response",
              key |-> required_response_keys[i - Len(required_request_keys)]]]

Absent(k, request, response) ==
    IF k.side = "request" THEN k.key \notin request.has ELSE k.key \notin response.has

\* the diagnostic that names the first absent key of KeyOrder
FirstAbsentDiagnostic(request, response) ==
    LET i == CHOOSE i \in DOMAIN KeyOrder :
                 /\ Absent(KeyOrder[i], request, response)
                 /\ \A j \in 1..(i - 1) : ~Absent(KeyOrder[j], request, response)
    IN Msg(IF KeyOrder[i].side = "request" THEN "Missing key in request"
           ELSE "Missing key in response", KeyOrder[i].key)

\* what the claim says of one run of validate_interaction that did v on
\* request and response
ValidatedAsClaimed(v, request, response) ==
    /\ v.exc = "none"
    /\ v.ret <=> (\A i \in DOMAIN KeyOrder : ~Absent(KeyOrder[i], request, response))
    /\ v.ret => v.msgs = <<>>
    /\ ~v.ret => v.msgs = <<FirstAbsentDiagnostic(request, response)>>

\* C17: every run of validate_interaction returned true exactly when all
\* required keys were there, and otherwise returned false, without raising,
\* after writing one diagnostic that names the first missing key.
C17_ValidatorReportsFirstMissingKey ==
    \A i \in DOMAIN calls :
        calls[i].v.exc # "not called"
        => ValidatedAsClaimed(calls[i].v, calls[i].nrq.val, calls[i].nrs.val)

\* C18: only a step of the worker thread opens, uses or closes the storage
\* connection: a step that changes the connection, the rows or the insert
\* attempts is a step of _process_queue, never one of log, close or __del__.
C18_OnlyWorkerTouchesStorage ==
    [][<<conn, connCloses, tables_created, rows, attempts>>'
          # <<conn, connCloses, tables_created, rows, attempts>>
       => (/\ wpc' # wpc
           /\ UNCHANGED <<pc, pending, calls, putLog, cpc, nCloses, closeReturned, dpc>>)]_vars

\* log, close and __del__ have all run on a logger whose worker opened the
\* connection, attempted an insert and closed the connection
C18_Witness ==
    /\ conn = "closed"
    /\ attempts # <<>>
    /\ \E c \in Closers : cpc[c] = "done"
    /\ dpc = "dead"

\* C19: the timestamp the worker passes to the insert is the clock value
\* that the log call which built the entry read, and it is not later than
\* the clock at the insert.
C19_TimestampIsBuildTime ==
    /\ \A i \in DOMAIN putLog : putLog[i].entry.timestamp = calls[putLog[i].call].t
    /\ wpc = "insert"
       => /\ InsertParams(log_entry)[2] = calls[putLog[Len(attempts) + 1].call].t
          /\ InsertParams(log_entry)[2] <= now

\* the worker is about to insert an entry built before the clock advanced
C19_Witness ==
    /\ wpc = "insert"
    /\ InsertParams(log_entry)[2] < now

\* C20: when the worker has ended after opening a connection, the
\* connection has been closed, exactly once.
C20_ConnectionClosedOnceOnEveryExit ==
    (wpc = "done" /\ conn # "none") => (conn = "closed" /\ connCloses = 1)

====
